---- MODULE Spec2Model ----
(***************************************************************************)
(* Model of static/js/map.js: the hazard-map client.                       *)
(*                                                                         *)
(* The page is single threaded.  Every action below is one run-to-         *)
(* completion step of the event loop: a DOM event handler, or the          *)
(* continuation of an async function after the promise it awaits settles.  *)
(* `await fetch(..)` followed by `await response.json()` is taken as one   *)
(* step: the code changes no state between the two awaits.                 *)
(* Elements carrying the CSS class `hidden` are taken to be invisible and  *)
(* not operable by the user; the upload form, its fields and the close and *)
(* cancel buttons live in the upload modal.                                *)
(***************************************************************************)
EXTENDS Integers, Sequences, FiniteSets, Bags, TLC

\* ------------------------------------------------------------------ bounds
MaxFeatures == 2        \* size of the flood collection served by the backend
MaxPending  == 2        \* cap on upload requests in flight in the model
MaxTimers   == 2        \* cap on reload timers armed in the model

\* --------------------------------------------------------------- constants
Datasets == {"flood", "landslide", "liquefaction"}
Order    == <<"flood", "landslide", "liquefaction">>
Undefined == "undefined"
None      == "none"

\* what an endpoint does with a GET: 200 + JSON, non-OK status, rejected
\* fetch (network error), 200 + a body that response.json() cannot parse
Outcomes == {"ok", "nonok", "rejected", "unparseable"}

\* clicked coordinates, in units of 1e-7 degree: <<lat, lng>>
Coords == { <<91234560, 1236543210>>, <<92000004, 1237000000>> }

DatasetTypes == {"flood"}

VARIABLES
    backend,        \* environment: what each hazard endpoint answers
    fetchState,     \* per dataset: "unsent", "pending" or the outcome seen
    loaderPc,       \* dataset whose fetch loadHazardData awaits, or "done"
    layers,         \* per dataset: shapes in the layer group
    onMap,          \* per dataset: the layer group is on the map
    toggleChecked,  \* per dataset: state of the checkbox
    mapMarkers,     \* bag of marker positions on the map
    currentMarker,  \* <<position>> of currentMarker, << >> while it is unset
    sidebarHidden, locationInfo, hazardDetails,
    modalHidden, formHidden, progressHidden, resultHidden,
    fileSelected, datasetType,
    uploadsPending, \* handleFileUpload invocations suspended on the request
    resultMessage,  \* content of #result-message
    reloadTimers,   \* setTimeout(location.reload) timers armed
    alertOpen,      \* text of the blocking alert() on screen, or None
    console,        \* console.error entries of this page load
    pageEpoch       \* parity of the number of page loads

loaderVars == <<backend, fetchState, loaderPc, layers>>
toggleVars == <<onMap, toggleChecked>>
clickVars  == <<mapMarkers, currentMarker, sidebarHidden, locationInfo, hazardDetails>>
panelVars  == <<formHidden, progressHidden, resultHidden>>
uploadVars == <<modalHidden, formHidden, progressHidden, resultHidden, fileSelected,
                datasetType, uploadsPending, resultMessage, reloadTimers>>
vars == <<backend, fetchState, loaderPc, layers, onMap, toggleChecked,
          mapMarkers, currentMarker, sidebarHidden, locationInfo, hazardDetails,
          modalHidden, formHidden, progressHidden, resultHidden, fileSelected,
          datasetType, uploadsPending, resultMessage, reloadTimers,
          alertOpen, console, pageEpoch>>

\* ------------------------------------------------------ backend collections
Codes == <<"LS", "MS", "HS", "VHS", "XX", Undefined>>
Areas == <<[has |-> TRUE, v |-> 1500], [has |-> TRUE, v |-> 0], [has |-> FALSE, v |-> 0]>>

DatasetIndex(d) == CHOOSE i \in 1..Len(Order) : Order[i] = d

\* number of features the endpoint of d serves
NumFeatures(d) ==
    CASE d = "flood"        -> MaxFeatures
      [] d = "landslide"    -> MaxFeatures - 1
      [] d = "liquefaction" -> MaxFeatures + 1

\* number of features the endpoints before that of d serve
FeaturesBefore(d) ==
    CASE d = "flood"        -> 0
      [] d = "landslide"    -> MaxFeatures
      [] d = "liquefaction" -> 2 * MaxFeatures - 1

\* i-th feature of the collection of d: {susceptibility, original_code, shape_area?};
\* the three collections run through the codes and the area values in turn
ServerFeature(d, i) ==
    [ susceptibility |-> Codes[((FeaturesBefore(d) + i - 1) % Len(Codes)) + 1],
      original_code  |-> <<d, i>>,
      shape_area     |-> Areas[((FeaturesBefore(d) + i - 1) % Len(Areas)) + 1] ]

ServerData(d) == [i \in 1..NumFeatures(d) |-> ServerFeature(d, i)]

\* ------------------------------------------------------------------ COLORS
COLORS(code) ==
    CASE code = "LS"  -> "#2ecc71"
      [] code = "MS"  -> "#f39c12"
      [] code = "HS"  -> "#e67e22"
      [] code = "VHS" -> "#e74c3c"
      [] OTHER        -> Undefined

\* a style callback without the fallback color
style_noFallback(feature) ==
    [ fillColor   |-> COLORS(feature.susceptibility),
      weight      |-> 1,
      opacity     |-> "0.8",
      color       |-> "white",
      fillOpacity |-> "0.6" ]

\* style callback of L.geoJSON
style(feature) ==
    [ fillColor   |-> IF COLORS(feature.susceptibility) # Undefined
                      THEN COLORS(feature.susceptibility) ELSE "#95a5a6",
      weight      |-> 1,
      opacity     |-> "0.8",
      color       |-> "white",
      fillOpacity |-> "0.6" ]

\* Number.prototype.toLocaleString for a non-negative integer: groups of
\* three digits, most significant first
RECURSIVE toLocaleString(_)
toLocaleString(n) == IF n < 1000 THEN <<n>> ELSE Append(toLocaleString(n \div 1000), n % 1000)

\* hazardType.charAt(0).toUpperCase() + hazardType.slice(1)
Capitalize(hazardType) ==
    CASE hazardType = "flood"        -> "Flood"
      [] hazardType = "landslide"    -> "Landslide"
      [] hazardType = "liquefaction" -> "Liquefaction"

\* popupContent of onEachFeature
popupContent(feature, hazardType) ==
    [ title  |-> <<Capitalize(hazardType), "Susceptibility">>,
      level  |-> feature.susceptibility,
      code   |-> feature.original_code,
      area   |-> IF feature.shape_area.has /\ feature.shape_area.v # 0
                 THEN <<"Area:", toLocaleString(feature.shape_area.v), "sq units">>
                 ELSE <<>> ]

\* one shape of a layer group
Shape(feature, hazardType) ==
    [ style |-> style(feature), popup |-> popupContent(feature, hazardType) ]

\* a renderer that adds every shape to the layer group twice
addGeoJSONLayer_twice(geojsonData, layerGroup, hazardType) ==
    layerGroup \o [i \in 1..(2 * Len(geojsonData)) |->
                      Shape(geojsonData[(i + 1) \div 2], hazardType)]

\* addGeoJSONLayer: the layer group after every feature was added to it
addGeoJSONLayer(geojsonData, layerGroup, hazardType) ==
    layerGroup \o [i \in 1..Len(geojsonData) |-> Shape(geojsonData[i], hazardType)]


\* ------------------------------------------------------------- page load
\* DOMContentLoaded: initMap (three layer groups added to the map, then
\* loadHazardData runs up to its first await), setupLayerToggles,
\* setupUploadModal.
\* the page as the server's template delivers it, before any script ran:
\* the three boxes checked, the sidebar, the modal, the progress and the
\* result panels hidden, the form shown and empty
Template ==
    [ toggleChecked |-> TRUE, sidebarHidden |-> TRUE, modalHidden |-> TRUE,
      formHidden |-> FALSE, progressHidden |-> TRUE, resultHidden |-> TRUE,
      fileSelected |-> FALSE, datasetType |-> "" ]

PageLoaded ==
    /\ backend \in [Datasets -> Outcomes]
    /\ fetchState = [d \in Datasets |-> IF d = Order[1] THEN "pending" ELSE "unsent"]
    /\ loaderPc = Order[1]
    /\ layers = [d \in Datasets |-> <<>>]
    /\ onMap = [d \in Datasets |-> TRUE]
    /\ toggleChecked = [d \in Datasets |-> Template.toggleChecked]
    /\ mapMarkers = EmptyBag
    /\ currentMarker = <<>>
    /\ sidebarHidden = Template.sidebarHidden
    /\ locationInfo = <<>>
    /\ hazardDetails = ""
    /\ modalHidden = Template.modalHidden
    /\ formHidden = Template.formHidden
    /\ progressHidden = Template.progressHidden
    /\ resultHidden = Template.resultHidden
    /\ fileSelected = Template.fileSelected
    /\ datasetType = Template.datasetType
    /\ uploadsPending = 0
    /\ resultMessage = [cls |-> "", text |-> <<>>]
    /\ reloadTimers = 0
    /\ alertOpen = None
    /\ console = {}

Init == PageLoaded /\ pageEpoch = 0

\* no handler runs while a blocking alert() is on screen
Running == alertOpen = None

\* --------------------------------------------------------- loadHazardData
\* the statement after the block of dataset d: the next fetch is issued, or
\* the function returns
NextFetch(d, fs) ==
    IF DatasetIndex(d) < Len(Order)
    THEN /\ fetchState' = [fs EXCEPT ![Order[DatasetIndex(d) + 1]] = "pending"]
         /\ loaderPc' = Order[DatasetIndex(d) + 1]
    ELSE /\ fetchState' = fs
         /\ loaderPc' = "done"

\* a loader without the catch block: the failure leaves the function
LoadCatch_uncaught(d, outcome) ==
    /\ fetchState' = [fetchState EXCEPT ![d] = outcome]
    /\ loaderPc' = "uncaught"
    /\ UNCHANGED <<console, layers>>

\* catch (error) { console.error('Error loading hazard data:', error) }
LoadCatch(d, outcome) ==
    /\ fetchState' = [fetchState EXCEPT ![d] = outcome]
    /\ loaderPc' = "done"
    /\ console' = console \cup {<<"Error loading hazard data:", d, outcome>>}
    /\ UNCHANGED layers

\* a loader that puts the layer group on the map when it has filled it
LoadOk_showsLayer(d) ==
    /\ Running /\ loaderPc = d /\ backend[d] = "ok"
    /\ layers' = [layers EXCEPT ![d] = addGeoJSONLayer(ServerData(d), layers[d], d)]
    /\ NextFetch(d, [fetchState EXCEPT ![d] = "ok"])
    /\ onMap' = [onMap EXCEPT ![d] = TRUE]
    /\ UNCHANGED <<backend, console, toggleChecked, clickVars, uploadVars, alertOpen, pageEpoch>>

\* response.ok, body parsed: addGeoJSONLayer, then the next dataset
LoadOk(d) ==
    /\ Running /\ loaderPc = d /\ backend[d] = "ok"
    /\ layers' = [layers EXCEPT ![d] = addGeoJSONLayer(ServerData(d), layers[d], d)]
    /\ NextFetch(d, [fetchState EXCEPT ![d] = "ok"])
    /\ UNCHANGED <<backend, console, toggleVars, clickVars, uploadVars, alertOpen, pageEpoch>>

\* !response.ok: the block is skipped
LoadNonOk(d) ==
    /\ Running /\ loaderPc = d /\ backend[d] = "nonok"
    /\ NextFetch(d, [fetchState EXCEPT ![d] = "nonok"])
    /\ UNCHANGED <<backend, layers, console, toggleVars, clickVars, uploadVars, alertOpen, pageEpoch>>

\* fetch() rejects: control leaves the try block
LoadRejected(d) ==
    /\ Running /\ loaderPc = d /\ backend[d] = "rejected"
    /\ LoadCatch(d, "rejected")
    /\ UNCHANGED <<backend, toggleVars, clickVars, uploadVars, alertOpen, pageEpoch>>

\* response.json() rejects: control leaves the try block
LoadUnparseable(d) ==
    /\ Running /\ loaderPc = d /\ backend[d] = "unparseable"
    /\ LoadCatch(d, "unparseable")
    /\ UNCHANGED <<backend, toggleVars, clickVars, uploadVars, alertOpen, pageEpoch>>

loadHazardData ==
    \E d \in Datasets : LoadOk(d) \/ LoadNonOk(d) \/ LoadRejected(d) \/ LoadUnparseable(d)

\* ------------------------------------------------------- setupLayerToggles
\* a handler that adds or removes all three layer groups
ToggleHandler_allLayers(d, checked) ==
    /\ toggleChecked' = [toggleChecked EXCEPT ![d] = checked]
    /\ onMap' = [o \in Datasets |-> checked]
    /\ UNCHANGED layers

\* a handler that empties the layer group when the box is unchecked
ToggleHandler_clearLayers(d, checked) ==
    /\ toggleChecked' = [toggleChecked EXCEPT ![d] = checked]
    /\ onMap' = [onMap EXCEPT ![d] = checked]
    /\ layers' = [layers EXCEPT ![d] = IF checked THEN layers[d] ELSE <<>>]

\* change event of the checkbox of d: the box has flipped, the handler adds
\* the layer group to the map or removes it
ToggleHandler(d, checked) ==
    /\ toggleChecked' = [toggleChecked EXCEPT ![d] = checked]
    /\ onMap' = [onMap EXCEPT ![d] = checked]
    /\ UNCHANGED layers

ToggleChange(d) ==
    /\ Running
    /\ ToggleHandler(d, ~toggleChecked[d])
    /\ UNCHANGED <<backend, fetchState, loaderPc, console, clickVars, uploadVars, alertOpen, pageEpoch>>

\* shapes of d drawn on the map
VisibleShapes(d) == IF onMap[d] THEN layers[d] ELSE <<>>

\* -------------------------------------------------------------- onMapClick
\* Number.prototype.toFixed(6) of a coordinate held in units of 1e-7 degree:
\* the value rounded to units of 1e-6 degree
toFixed6(x) == (x + 5) \div 10

\* getHazardInfoForLocation: no await in its body, it runs to its end within
\* the click handler; the try block cannot throw
getHazardInfoForLocation == "placeholder"

\* a panel that shows the two coordinates in the wrong order
showLocationInfo_swapped(c) ==
    /\ sidebarHidden' = FALSE
    /\ locationInfo' = <<toFixed6(c[2]), toFixed6(c[1])>>
    /\ hazardDetails' = getHazardInfoForLocation

showLocationInfo(c) ==
    /\ sidebarHidden' = FALSE
    /\ locationInfo' = <<toFixed6(c[1]), toFixed6(c[2])>>
    /\ hazardDetails' = getHazardInfoForLocation

\* a click handler that forgets to remove the previous marker
onMapClick_keepOld(c) ==
    /\ mapMarkers' = mapMarkers (+) SetToBag({c})
    /\ currentMarker' = <<c>>
    /\ showLocationInfo(c)

onMapClick(c) ==
    /\ mapMarkers' = (IF currentMarker # <<>>
                      THEN mapMarkers (-) SetToBag({currentMarker[1]})
                      ELSE mapMarkers) (+) SetToBag({c})
    /\ currentMarker' = <<c>>
    /\ showLocationInfo(c)

MapClick(c) ==
    /\ Running
    /\ onMapClick(c)
    /\ UNCHANGED <<loaderVars, console, toggleVars, uploadVars, alertOpen, pageEpoch>>


\* ------------------------------------------------------------ upload modal
\* what the upload endpoint can answer: the fetch rejects, or a response with
\* a status and a body that response.json() parses or not
Bodies ==
    { [parsed |-> FALSE, records_created |-> Undefined, error |-> Undefined],
      [parsed |-> TRUE,  records_created |-> "42",      error |-> Undefined],
      [parsed |-> TRUE,  records_created |-> Undefined, error |-> "bad format"],
      [parsed |-> TRUE,  records_created |-> Undefined, error |-> Undefined] }

UploadResponses ==
    { [status |-> "rejected", body |-> [parsed |-> FALSE, records_created |-> Undefined,
                                        error |-> Undefined]] }
    \cup [status : {"ok", "nonok"}, body : Bodies]

showUploadProgress ==
    /\ formHidden' = TRUE
    /\ progressHidden' = FALSE

showUploadResult(success, message) ==
    /\ progressHidden' = TRUE
    /\ resultHidden' = FALSE
    /\ resultMessage' = [cls |-> IF success THEN "success" ELSE "error", text |-> message]

\* a reset that leaves the result panel on screen
resetUploadForm_keepResult ==
    /\ formHidden' = FALSE
    /\ progressHidden' = TRUE
    /\ resultHidden' = resultHidden
    /\ fileSelected' = FALSE
    /\ datasetType' = ""

resetUploadForm ==
    /\ formHidden' = FALSE
    /\ progressHidden' = TRUE
    /\ resultHidden' = TRUE
    /\ fileSelected' = FALSE
    /\ datasetType' = ""

\* the upload state the three panels show
UploadState ==
    IF ~progressHidden THEN "InProgress"
    ELSE IF ~resultHidden
         THEN (IF resultMessage.cls = "success" THEN "Succeeded" ELSE "Failed")
         ELSE "Idle"

\* the user can operate the form
FormOperable == ~modalHidden /\ ~formHidden

\* click on #upload-btn
OpenModal ==
    /\ Running
    /\ modalHidden' = FALSE
    /\ UNCHANGED <<loaderVars, console, toggleVars, clickVars, panelVars, fileSelected,
                   datasetType, uploadsPending, resultMessage, reloadTimers, alertOpen, pageEpoch>>

\* click on #close-modal
CloseModal ==
    /\ Running /\ ~modalHidden
    /\ modalHidden' = TRUE
    /\ resetUploadForm
    /\ UNCHANGED <<loaderVars, console, toggleVars, clickVars, uploadsPending, resultMessage,
                   reloadTimers, alertOpen, pageEpoch>>

\* click on #cancel-upload
CancelUpload ==
    /\ Running /\ ~modalHidden
    /\ modalHidden' = TRUE
    /\ resetUploadForm
    /\ UNCHANGED <<loaderVars, console, toggleVars, clickVars, uploadsPending, resultMessage,
                   reloadTimers, alertOpen, pageEpoch>>

\* the user picks a file in #shapefile-input
SelectFile ==
    /\ Running /\ FormOperable /\ ~fileSelected
    /\ fileSelected' = TRUE
    /\ UNCHANGED <<loaderVars, console, toggleVars, clickVars, modalHidden, panelVars,
                   datasetType, uploadsPending, resultMessage, reloadTimers, alertOpen, pageEpoch>>

\* the user picks a value of #dataset-type
SelectType(t) ==
    /\ Running /\ FormOperable /\ datasetType # t
    /\ datasetType' = t
    /\ UNCHANGED <<loaderVars, console, toggleVars, clickVars, modalHidden, panelVars,
                   fileSelected, uploadsPending, resultMessage, reloadTimers, alertOpen, pageEpoch>>

\* a submit handler that does not check the dataset type
handleFileUpload_noTypeCheck ==
    IF ~fileSelected
    THEN /\ alertOpen' = "Please select a shapefile to upload"
         /\ UNCHANGED <<panelVars, uploadsPending>>
    ELSE /\ showUploadProgress
         /\ uploadsPending' = uploadsPending + 1
         /\ UNCHANGED <<resultHidden, alertOpen>>

\* handleFileUpload up to its first await: validation, then the request
handleFileUpload ==
    IF ~fileSelected
    THEN /\ alertOpen' = "Please select a shapefile to upload"
         /\ UNCHANGED <<panelVars, uploadsPending>>
    ELSE IF datasetType = ""
    THEN /\ alertOpen' = "Please select a dataset type"
         /\ UNCHANGED <<panelVars, uploadsPending>>
    ELSE /\ showUploadProgress
         /\ uploadsPending' = uploadsPending + 1
         /\ UNCHANGED <<resultHidden, alertOpen>>

\* submit event of #upload-form
SubmitForm ==
    /\ Running /\ FormOperable
    /\ (fileSelected /\ datasetType # "") => uploadsPending < MaxPending
    /\ handleFileUpload
    /\ UNCHANGED <<loaderVars, console, toggleVars, clickVars, modalHidden, fileSelected,
                   datasetType, resultMessage, reloadTimers, pageEpoch>>

\* the user dismisses the alert
DismissAlert ==
    /\ alertOpen # None
    /\ alertOpen' = None
    /\ UNCHANGED <<loaderVars, console, toggleVars, clickVars, uploadVars, pageEpoch>>

\* a success message without the record count
SuccessMessage_noCount(result) == <<"Successfully processed", "records">>

\* message of the success branch
SuccessMessage(result) == <<"Successfully processed", result.records_created, "records">>

\* message of the non-OK branch: result.error || 'Upload failed'
FailureMessage(result) == IF result.error # Undefined THEN <<result.error>> ELSE <<"Upload failed">>

\* a continuation that arms the reload timer on a non-OK response as well
uploadSettled_reloadOnFailure(r) ==
    IF r.status = "rejected" \/ ~r.body.parsed
    THEN /\ showUploadResult(FALSE, <<"Network error occurred">>)
         /\ console' = console \cup {<<"Upload error:">>}
         /\ UNCHANGED reloadTimers
    ELSE /\ showUploadResult(r.status = "ok",
                             IF r.status = "ok" THEN SuccessMessage(r.body)
                                                ELSE FailureMessage(r.body))
         /\ reloadTimers' = reloadTimers + 1
         /\ UNCHANGED console

\* handleFileUpload after its awaits: r is what came back
uploadSettled(r) ==
    IF r.status = "rejected" \/ ~r.body.parsed
    THEN /\ showUploadResult(FALSE, <<"Network error occurred">>)
         /\ console' = console \cup {<<"Upload error:">>}
         /\ UNCHANGED reloadTimers
    ELSE IF r.status = "ok"
    THEN /\ showUploadResult(TRUE, SuccessMessage(r.body))
         /\ reloadTimers' = reloadTimers + 1
         /\ UNCHANGED console
    ELSE /\ showUploadResult(FALSE, FailureMessage(r.body))
         /\ UNCHANGED <<console, reloadTimers>>

\* a continuation that, on success, empties the hazard layers to draw
\* them afresh instead of leaving that to the reload
UploadSettles_refreshLayers(r) ==
    /\ Running /\ uploadsPending > 0
    /\ (r.status = "ok" /\ r.body.parsed) => reloadTimers < MaxTimers
    /\ uploadsPending' = uploadsPending - 1
    /\ uploadSettled(r)
    /\ layers' = IF r.status = "ok" /\ r.body.parsed
                 THEN [d \in Datasets |-> <<>>] ELSE layers
    /\ UNCHANGED <<backend, fetchState, loaderPc, toggleVars, clickVars, modalHidden,
                   formHidden, fileSelected, datasetType, alertOpen, pageEpoch>>

UploadSettles(r) ==
    /\ Running /\ uploadsPending > 0
    /\ (r.status = "ok" /\ r.body.parsed) => reloadTimers < MaxTimers
    /\ uploadsPending' = uploadsPending - 1
    /\ uploadSettled(r)
    /\ UNCHANGED <<loaderVars, toggleVars, clickVars, modalHidden, formHidden, fileSelected,
                   datasetType, alertOpen, pageEpoch>>

\* a reload timer fires: location.reload() loads the page afresh (the
\* endpoints answer the new page as they answered the old one)
Reload ==
    /\ Running /\ reloadTimers > 0
    /\ backend' = backend
    /\ fetchState' = [d \in Datasets |-> IF d = Order[1] THEN "pending" ELSE "unsent"]
    /\ loaderPc' = Order[1]
    /\ layers' = [d \in Datasets |-> <<>>]
    /\ onMap' = [d \in Datasets |-> TRUE]
    /\ toggleChecked' = [d \in Datasets |-> Template.toggleChecked]
    /\ mapMarkers' = EmptyBag
    /\ currentMarker' = <<>>
    /\ sidebarHidden' = Template.sidebarHidden
    /\ locationInfo' = <<>>
    /\ hazardDetails' = ""
    /\ modalHidden' = Template.modalHidden
    /\ formHidden' = Template.formHidden
    /\ progressHidden' = Template.progressHidden
    /\ resultHidden' = Template.resultHidden
    /\ fileSelected' = Template.fileSelected
    /\ datasetType' = Template.datasetType
    /\ uploadsPending' = 0
    /\ resultMessage' = [cls |-> "", text |-> <<>>]
    /\ reloadTimers' = 0
    /\ alertOpen' = None
    /\ console' = {}
    /\ pageEpoch' = 1 - pageEpoch

\* the map: data load, layer toggles, point inspection
NextMap ==
    \/ loadHazardData
    \/ \E d \in Datasets : ToggleChange(d)
    \/ \E c \in Coords : MapClick(c)

\* the upload modal
NextUpload ==
    \/ OpenModal
    \/ CloseModal
    \/ CancelUpload
    \/ SelectFile
    \/ \E t \in DatasetTypes : SelectType(t)
    \/ SubmitForm
    \/ DismissAlert
    \/ \E r \in UploadResponses : UploadSettles(r)
    \/ Reload

Next == NextMap \/ NextUpload

\* the whole page
Spec == Init /\ [][Next]_vars

\* The handlers of the map and those of the upload modal share no variable
\* (see the UNCHANGED clauses); only Reload and a blocking alert touch both.
\* Claims about one of the two are checked on that part of the page.
SpecMap == Init /\ [][NextMap]_vars

\* the upload modal reads nothing of the hazard endpoints: one backend
InitUpload == Init /\ backend = [d \in Datasets |-> "ok"]

SpecUpload == InitUpload /\ [][NextUpload]_vars

\* the whole page with every hazard endpoint answering its collection: of
\* loadHazardData only the ok branch can run
NextPage ==
    \/ \E d \in Datasets : LoadOk(d)
    \/ \E d \in Datasets : ToggleChange(d)
    \/ \E c \in Coords : MapClick(c)
    \/ NextUpload

SpecPage == InitUpload /\ [][NextPage]_vars

\* the map under every answer of the hazard endpoints, with the handlers of
\* the upload modal up to the request
NextHandlers ==
    \/ NextMap
    \/ OpenModal
    \/ CloseModal
    \/ CancelUpload
    \/ SelectFile
    \/ \E t \in DatasetTypes : SelectType(t)
    \/ SubmitForm
    \/ DismissAlert

SpecHandlers == Init /\ [][NextHandlers]_vars

\* A timer armed by setTimeout fires once the event loop is free; alert()
\* stops the event loop until the user dismisses it.
SpecUploadFair == SpecUpload /\ SF_vars(Reload) /\ WF_vars(DismissAlert)


\* ================================================================= claims

Failures == {"nonok", "rejected", "unparseable"}

\* what the layer of d holds once its collection was rendered into it
Populated(d) == layers[d] = addGeoJSONLayer(ServerData(d), <<>>, d)

\* C1: for each dataset and each way its load can fail: when that dataset
\* fails and the endpoints of the other two answer with their collections,
\* then once loadHazardData has finished the other two layers hold all their
\* features and the layer of the failed dataset is empty.
C1_PartialFailure ==
    \A d \in Datasets :
        ( /\ loaderPc = "done"
          /\ backend[d] \in Failures
          /\ \A o \in Datasets \ {d} : backend[o] = "ok" )
        => ( /\ layers[d] = <<>>
             /\ \A o \in Datasets \ {d} : Populated(o) )

\* C2: the three requests are issued without waiting on each other: while the
\* flood response has not arrived, the landslide and the liquefaction requests
\* are already sent.
C2_RequestsIssuedTogether ==
    fetchState["flood"] = "pending"
        => /\ fetchState["landslide"] # "unsent"
           /\ fetchState["liquefaction"] # "unsent"

\* C3: at most one selection marker is on the map in every state, and a map
\* click leaves exactly one marker on the map, at the clicked coordinate.
C3_SingleMarker ==
    /\ [](BagCardinality(mapMarkers) <= 1)
    /\ [][\A c \in Coords : MapClick(c) => mapMarkers' = SetToBag({c})]_vars

\* C3 witness: a marker was replaced by a click somewhere else; one marker
\* is on the map
C3_Witness ==
    /\ currentMarker = << <<92000004, 1237000000>> >>
    /\ mapMarkers = SetToBag({<<92000004, 1237000000>>})
    /\ locationInfo = <<9200000, 123700000>>

\* C9: a toggle change puts the layer on the map exactly when its box is
\* checked, showing all the shapes of the layer again when it is re-checked;
\* it issues no fetch, alters the shapes of no layer and leaves the other
\* two layers on or off the map as they were.
C9_ToggleVisibilityOnly ==
    [][\A d \in Datasets :
          ToggleChange(d) =>
              /\ layers' = layers
              /\ fetchState' = fetchState /\ loaderPc' = loaderPc
              /\ \A o \in Datasets \ {d} : onMap'[o] = onMap[o]
              /\ onMap'[d] = ~onMap[d]
              /\ VisibleShapes(d)' = (IF onMap[d] THEN <<>> ELSE layers[d])]_vars

\* C9 witness: a layer that holds shapes is off the map, the other two are on
C9_Witness ==
    /\ ~onMap["flood"] /\ ~toggleChecked["flood"]
    /\ layers["flood"] # <<>> /\ VisibleShapes("flood") = <<>>
    /\ onMap["landslide"] /\ onMap["liquefaction"]

\* C10: every dataset whose load failed, by a non-OK status, a rejected fetch
\* or an unparseable body, has an entry in the console.
C10_FailuresLogged ==
    \A d \in Datasets :
        fetchState[d] \in Failures => \E e \in console : e[2] = d


\* ------------------------------------------------------- the upload modal

\* the transitions of one submission: Idle -> InProgress -> Succeeded or
\* Failed -> Idle
LinearStep(from, to) ==
    \/ from = to
    \/ from = "Idle" /\ to = "InProgress"
    \/ from = "InProgress" /\ to \in {"Succeeded", "Failed"}
    \/ from \in {"Succeeded", "Failed"} /\ to = "Idle"

\* C4: the upload state moves only along Idle -> InProgress -> Succeeded or
\* Failed -> Idle; it never goes from InProgress to Idle while a request is
\* pending and never enters Succeeded or Failed from Idle.
C4_LinearTransitions ==
    [][ /\ LinearStep(UploadState, UploadState')
        /\ (UploadState = "InProgress" /\ UploadState' = "Idle") => uploadsPending = 0
        /\ UploadState = "Idle" => UploadState' \notin {"Succeeded", "Failed"} ]_vars

\* C5: at most one upload request is pending in every state.
C5_SingleInFlight == uploadsPending <= 1

ValidationAlerts == {"Please select a shapefile to upload", "Please select a dataset type"}

\* C6: a submit with no file or no dataset type issues no request, shows a
\* validation alert, and leaves the upload state and the visibility of the
\* three panels as they were.
C6_InvalidSubmitRejected ==
    [][(SubmitForm /\ (~fileSelected \/ datasetType = ""))
          => /\ uploadsPending' = uploadsPending
             /\ alertOpen' \in ValidationAlerts
             /\ UploadState' = UploadState
             /\ panelVars' = panelVars]_vars

\* C6 witness: a file was chosen, no type: the alert is up, nothing was sent
C6_Witness ==
    /\ alertOpen = "Please select a dataset type"
    /\ fileSelected /\ datasetType = ""
    /\ uploadsPending = 0 /\ UploadState = "Idle"

\* the message shows the record count the server reported
ShowsCount(r) ==
    r.body.records_created # Undefined
        => \E i \in 1..Len(resultMessage.text) : resultMessage.text[i] = r.body.records_created

\* what the step that handles response r must lead to: Succeeded, the
\* count shown, a reload armed
EndsSucceeded(r) ==
    UploadSettles(r) =>
        /\ UploadState' = "Succeeded"
        /\ resultMessage'.cls = "success"
        /\ ShowsCount(r)'
        /\ reloadTimers' > 0

OkResponses == {r \in UploadResponses : r.status = "ok"}

OkJsonResponses == {r \in UploadResponses : r.status = "ok" /\ r.body.parsed}

\* every Succeeded state is followed by a page load
SuccessLeadsToReload ==
    /\ (UploadState = "Succeeded" /\ pageEpoch = 0) ~> (pageEpoch = 1)
    /\ (UploadState = "Succeeded" /\ pageEpoch = 1) ~> (pageEpoch = 0)

ErrorTexts(r) ==
    IF r.status = "nonok" /\ r.body.parsed /\ r.body.error # Undefined
    THEN {<<r.body.error>>}
    ELSE {<<"Upload failed">>, <<"Network error occurred">>}

\* C8: a submission that fails, by a network error or a non-OK response,
\* ends in Failed showing the error message (the server's error text when
\* one is given) and arms no reload; a reload timer is armed only by a step
\* that ends in Succeeded, and the page reloads only with a timer armed.
C8_FailureNeverReloads ==
    /\ [][\A r \in {x \in UploadResponses : x.status \in {"rejected", "nonok"}} :
             UploadSettles(r) =>
                 /\ UploadState' = "Failed"
                 /\ resultMessage'.cls = "error"
                 /\ resultMessage'.text \in ErrorTexts(r)
                 /\ reloadTimers' = reloadTimers]_vars
    /\ [][reloadTimers' > reloadTimers => UploadState' = "Succeeded"]_vars
    /\ [][pageEpoch' # pageEpoch => reloadTimers > 0]_vars

\* C8 witness: the server's error text is shown, no reload is armed
C8_Witness ==
    /\ UploadState = "Failed"
    /\ resultMessage = [cls |-> "error", text |-> <<"bad format">>]
    /\ reloadTimers = 0


\* ----------------------------------------------------------- the renderer

\* C11: each layer whose dataset loaded with N features holds exactly N
\* shapes, the i-th made from the i-th feature, so no feature is rendered
\* twice; a layer whose dataset did not load holds none.
C11_OneShapePerFeature ==
    \A d \in Datasets :
        IF fetchState[d] = "ok"
        THEN /\ Len(layers[d]) = NumFeatures(d)
             /\ \A i \in 1..Len(layers[d]) :
                    /\ layers[d][i].popup.code = ServerFeature(d, i).original_code
                    /\ layers[d][i].popup.level = ServerFeature(d, i).susceptibility
        ELSE layers[d] = <<>>

\* C11 witness: the loader has finished, all three collections are rendered
C11_Witness ==
    /\ loaderPc = "done"
    /\ \A d \in Datasets : fetchState[d] = "ok" /\ Len(layers[d]) = NumFeatures(d)
    /\ Len(layers["liquefaction"]) > Len(layers["landslide"])

\* C12: the popup of a rendered feature has the area line if and only if the
\* feature has a shape_area, whatever its value (0 included).
C12_AreaLineIffPresent ==
    \A d \in Datasets : \A i \in 1..Len(layers[d]) :
        (layers[d][i].popup.area # <<>>) <=> ServerFeature(d, i).shape_area.has

\* the fixed color table
TableColor(code) ==
    CASE code = "LS"  -> "#2ecc71"
      [] code = "MS"  -> "#f39c12"
      [] code = "HS"  -> "#e67e22"
      [] code = "VHS" -> "#e74c3c"
      [] OTHER        -> "#95a5a6"

InspectOrUploadStep ==
    \/ \E c \in Coords : MapClick(c)
    \/ OpenModal \/ CloseModal \/ CancelUpload
    \/ SelectFile \/ (\E t \in DatasetTypes : SelectType(t))
    \/ SubmitForm \/ DismissAlert
    \/ \E r \in UploadResponses : UploadSettles(r)

\* C14: a map click and every step of the upload flow (open, input, submit,
\* progress, result, dismiss) leave the shapes of the three hazard layers
\* and their visibility as they were.
C14_LayerStoreUntouched ==
    [][InspectOrUploadStep =>
          /\ layers' = layers
          /\ onMap' = onMap
          /\ toggleChecked' = toggleChecked]_vars

\* C14 witness: layers are loaded, one is toggled off, a point is selected
\* and an upload has ended
C14_Witness ==
    /\ loaderPc = "done" /\ \A d \in Datasets : layers[d] # <<>>
    /\ ~onMap["landslide"] /\ onMap["flood"]
    /\ currentMarker # <<>>
    /\ UploadState = "Succeeded" /\ reloadTimers > 0


\* C15: whatever the three endpoints answer, loadHazardData ends: a rejected
\* fetch or an unparseable body is caught (and logged) and ends the loader,
\* any other answer lets it go on; and once it has ended the map-click, the
\* layer-toggle and the upload handlers run as on a page that loaded fully.
C15_LoaderFailuresContained ==
    /\ loaderPc \in Datasets \cup {"done"}
    /\ \A d \in Datasets :
          fetchState[d] \in {"rejected", "unparseable"}
              => loaderPc = "done" /\ \E e \in console : e[2] = d
    /\ (Running /\ loaderPc \in Datasets) => ENABLED loadHazardData
    /\ (Running /\ loaderPc = "done") =>
          /\ \A c \in Coords : ENABLED MapClick(c)
          /\ \A d \in Datasets : ENABLED ToggleChange(d)
          /\ ENABLED OpenModal
          /\ ~modalHidden => ENABLED CloseModal /\ ENABLED CancelUpload
          /\ (FormOperable /\ uploadsPending < MaxPending) => ENABLED SubmitForm

\* C15 witness: the loader ended on an unparseable body; after that a
\* point is selected, a layer is off and an upload is under way
C15_Witness ==
    /\ loaderPc = "done"
    /\ fetchState = [flood |-> "ok", landslide |-> "unparseable", liquefaction |-> "unsent"]
    /\ currentMarker # <<>>
    /\ ~onMap["flood"]
    /\ uploadsPending = 1 /\ UploadState = "InProgress"


\* C16: exactly one of the three panels of the upload modal (form, progress,
\* result) is visible in every state.
C16_OnePanelVisible ==
    Cardinality({p \in {"form", "progress", "result"} :
                    \/ p = "form" /\ ~formHidden
                    \/ p = "progress" /\ ~progressHidden
                    \/ p = "result" /\ ~resultHidden}) = 1

\* C17: in every state a layer group is on the map exactly when its box is
\* checked, so its shapes are drawn if and only if the toggle is on; a
\* collection that loads while the box is unchecked goes into the layer and
\* is not drawn, and the toggle change that checks the box draws all of it.
C17_VisibleIffToggledOn ==
    /\ [](\A d \in Datasets :
            /\ onMap[d] <=> toggleChecked[d]
            /\ VisibleShapes(d) = (IF toggleChecked[d] THEN layers[d] ELSE <<>>))
    /\ [][\A d \in Datasets :
            /\ (LoadOk(d) /\ ~toggleChecked[d])
                  => /\ Len(layers'[d]) = NumFeatures(d)
                     /\ VisibleShapes(d)' = <<>>
            /\ (ToggleChange(d) /\ ~toggleChecked[d])
                  => VisibleShapes(d)' = layers[d]]_vars

\* C17 witness: the landslide collection is in its layer, whose box is
\* unchecked, and is not drawn; the flood shapes are drawn
C17_Witness ==
    /\ ~toggleChecked["landslide"] /\ layers["landslide"] # <<>>
    /\ VisibleShapes("landslide") = <<>>
    /\ toggleChecked["flood"] /\ VisibleShapes("flood") # <<>>
    /\ fetchState["liquefaction"] = "pending"

\* C18: a toggle change of a layer whose dataset failed to load is possible
\* and changes what is drawn of no layer: its own layer is empty before and
\* after, and the other two layers keep their shapes and their visibility.
C18_ToggleFailedLayerNoOp ==
    /\ [](\A d \in Datasets :
            (Running /\ fetchState[d] \in Failures)
                => layers[d] = <<>> /\ ENABLED ToggleChange(d))
    /\ [][\A d \in Datasets :
            (ToggleChange(d) /\ fetchState[d] \in Failures)
                => /\ layers' = layers
                   /\ \A o \in Datasets : VisibleShapes(o)' = VisibleShapes(o)
                   /\ \A o \in Datasets \ {d} : onMap'[o] = onMap[o]]_vars

\* C18 witness: the box of the failed flood layer is unchecked, the landslide
\* shapes are still drawn
C18_Witness ==
    /\ fetchState["flood"] = "nonok" /\ ~toggleChecked["flood"]
    /\ layers["flood"] = <<>>
    /\ VisibleShapes("landslide") # <<>>

\* after a click: the panel is shown, the coordinate in it is within tol
\* (in units of 1e-7 degree) of that of the one marker, and the details are
\* the placeholder
PanelAfterClick(tol) ==
    currentMarker # <<>> =>
        /\ ~sidebarHidden
        /\ mapMarkers = SetToBag({currentMarker[1]})
        /\ Len(locationInfo) = 2
        /\ \A k \in 1..2 : (10 * locationInfo[k] - currentMarker[1][k]) \in (0 - tol)..tol
        /\ hazardDetails = "placeholder"

\* C19 as stated: after a click the panel is visible and stays visible, the
\* coordinate it shows is the coordinate of the marker, and the details are
\* the placeholder, never the error text.
C19_PanelShowsMarkerCoordinate ==
    /\ [](PanelAfterClick(0) /\ hazardDetails # "error")
    /\ [][(\E c \in Coords : MapClick(c)) => ~sidebarHidden']_vars
    /\ [][~sidebarHidden => ~sidebarHidden']_vars

\* C19 amended: the coordinate the panel shows is the coordinate of the
\* marker rounded to six decimals.
C19_PanelShowsRoundedCoordinate ==
    /\ [](PanelAfterClick(5) /\ hazardDetails # "error")
    /\ [][(\E c \in Coords : MapClick(c)) => ~sidebarHidden']_vars
    /\ [][~sidebarHidden => ~sidebarHidden']_vars

\* C19 witness: the marker is at 9.2000004, 123.7; the panel shows 9.200000,
\* 123.700000
C19_Witness ==
    /\ currentMarker = << <<92000004, 1237000000>> >>
    /\ ~sidebarHidden
    /\ locationInfo = <<9200000, 123700000>>
    /\ hazardDetails = "placeholder"

\* C20: a close or a cancel, from any upload state, hides the modal, shows
\* the cleared form, hides the progress and the result panel and neither
\* reloads the page nor arms a reload; the modal can then be opened again and
\* a submit of a filled form issues a new request.
C20_DismissResetsToIdle ==
    /\ [][(CloseModal \/ CancelUpload)
             => /\ modalHidden' /\ ~formHidden' /\ progressHidden' /\ resultHidden'
                /\ ~fileSelected' /\ datasetType' = ""
                /\ UploadState' = "Idle"
                /\ pageEpoch' = pageEpoch /\ reloadTimers' = reloadTimers]_vars
    /\ []((Running /\ modalHidden) => ENABLED OpenModal)
    /\ []((Running /\ FormOperable /\ fileSelected /\ datasetType # ""
              /\ uploadsPending < MaxPending) => ENABLED SubmitForm)
    /\ [][(SubmitForm /\ fileSelected /\ datasetType # "")
             => uploadsPending' = uploadsPending + 1]_vars

\* C20 witness: a failure was dismissed (its message is still in the hidden
\* result panel), the modal was opened again and a new request is pending
C20_Witness ==
    /\ resultMessage.cls = "error" /\ resultHidden
    /\ ~modalHidden /\ UploadState = "InProgress"
    /\ uploadsPending = 1 /\ reloadTimers = 0

====
